---- MODULE Spec2Model ----
(***************************************************************************)
(* Model of reinforcement/agent.py: the tabular SARSA agent AgentQ.        *)
(* Real numbers (table values, rewards, rates) are exact rationals <<n,d>> *)
(* with d > 0 in lowest terms.  The environment (reinforcement/joc.py) is  *)
(* outside the source tree; it is modelled from its interface as a         *)
(* nondeterministic collaborator.                                          *)
(***************************************************************************)
EXTENDS Integers, Sequences, FiniteSets, TLC

\* ------------------------------------------------------------------ bounds
MaxEpisodes == 2
MaxSteps == 2
MaxSweep == 45
MaxQueries == 1

\* --------------------------------------------------------------- rationals
Abs(n) == IF n < 0 THEN 0 - n ELSE n

RECURSIVE GCD(_, _)
GCD(a, b) == IF b = 0 THEN a ELSE GCD(b, a % b)

Norm(n, d) == LET g == GCD(Abs(n), d) IN <<n \div g, d \div g>>

Zero == <<0, 1>>
R(n) == <<n, 1>>

RAdd(a, b) ==
    LET g == GCD(a[2], b[2])
        l == (a[2] \div g) * b[2]
    IN  Norm(a[1] * (l \div a[2]) + b[1] * (l \div b[2]), l)

RNeg(a) == <<0 - a[1], a[2]>>
RSub(a, b) == RAdd(a, RNeg(b))

RMul(a, b) ==
    LET g1 == GCD(Abs(a[1]), b[2])
        g2 == GCD(Abs(b[1]), a[2])
    IN  IF a[1] = 0 \/ b[1] = 0 THEN Zero
        ELSE <<(a[1] \div g1) * (b[1] \div g2), (a[2] \div g2) * (b[2] \div g1)>>

\* a < b, by comparing integer parts and then the reciprocals of the
\* fractional parts, so that no product of a numerator and a denominator
\* is ever formed.
RECURSIVE RLess(_, _)
RLess(a, b) ==
    LET q1 == a[1] \div a[2]
        q2 == b[1] \div b[2]
        r1 == a[1] % a[2]
        r2 == b[1] % b[2]
    IN  IF q1 # q2 THEN q1 < q2
        ELSE IF r2 = 0 THEN FALSE
        ELSE IF r1 = 0 THEN TRUE
        ELSE RLess(<<b[2], r2>>, <<a[2], r1>>)

RLeq(a, b) == ~RLess(b, a)
RMax(a, b) == IF RLess(a, b) THEN b ELSE a

\* ------------------------------------------------------------- environment
WIN == "WIN"
LOSE == "LOSE"
IN_PROGRESS == "IN_PROGRESS"
Status == {IN_PROGRESS, WIN, LOSE}

\* environment.actions, the canonical ordering
actions == <<"MOVE_LEFT", "MOVE_RIGHT", "MOVE_UP", "MOVE_DOWN">>
ActionSet == {actions[i] : i \in 1..Len(actions)}

\* A small deterministic world behind the interface: MOVE_RIGHT wins at the
\* exit, MOVE_LEFT and MOVE_DOWN lose, MOVE_UP keeps the game going until the
\* move budget MaxSteps is used up.
HomeCell == <<0, 0>>
ExitCell == <<2, 0>>

\* environment.reset(start_position) -> state
EnvReset(pos) == pos

\* environment._aplica(action) -> (next_state, reward, status), given the
\* number of moves already made in the episode
EnvStep(moved, a) ==
    IF a = "MOVE_RIGHT" THEN <<ExitCell, <<1, 1>>, WIN>>
    ELSE IF a = "MOVE_LEFT" THEN <<HomeCell, <<-1, 1>>, LOSE>>
    ELSE IF a = "MOVE_DOWN" THEN <<HomeCell, <<0, 1>>, LOSE>>
    ELSE IF moved + 1 >= MaxSteps THEN <<ExitCell, <<-1, 1>>, LOSE>>
    ELSE <<ExitCell, <<-1, 1>>, IN_PROGRESS>>

\* ------------------------------------------------------------------- train
min_exploration_rate == <<1, 100>>
decay_rate == <<399, 400>>
default_check_convergence_every == 5

maze == <<
    <<0, 1, 0, 0, 0, 0, 0, 0>>,
    <<0, 1, 0, 1, 0, 1, 0, 0>>,
    <<0, 1, 0, 1, 1, 0, 1, 0>>,
    <<0, 1, 0, 1, 0, 0, 0, 0>>,
    <<0, 1, 0, 1, 0, 1, 0, 0>>,
    <<0, 0, 0, 1, 0, 1, 1, 1>>,
    <<0, 1, 1, 0, 0, 0, 0, 0>>,
    <<0, 1, 0, 0, 0, 1, 0, 0>> >>

\* maze[y, x] with 0-based indices
MazeAt(cx, cy) == maze[cy + 1][cx + 1]

\* np.sqrt(maze.size) - 1
Side == Len(maze) - 1

\* the cascade without the return to row 0 after the last row
AdvanceNoWrap(c) == IF c[1] < Side THEN <<c[1] + 1, c[2]>> ELSE <<0, c[2] + 1>>

\* one application of the if/else cascade that moves the cursor one cell
AdvanceCell(c) ==
    IF c[2] < Side
    THEN IF c[1] < Side THEN <<c[1] + 1, c[2]>> ELSE <<0, c[2] + 1>>
    ELSE IF c[1] < Side THEN <<c[1] + 1, c[2]>> ELSE <<0, 0>>

\* while maze[y, x] == 1: advance
RECURSIVE SkipOccupied(_)
SkipOccupied(c) == IF MazeAt(c[1], c[2]) = 1 THEN SkipOccupied(AdvanceCell(c)) ELSE c

\* the cursor update without the loop over occupied cells
NextStartNoSkip(c) == AdvanceCell(c)

\* the cursor update at the end of an episode
NextStart(c) == SkipOccupied(AdvanceCell(c))

\* ------------------------------------------------------------- the agent
VARIABLES
    pc,                         \* "idle", or the position in train: "loop", "step", "learn", "end", "done", "error"
    discount, learning_rate, exploration_rate, episodes, stop_at_convergence,
    Q,                          \* self.Q, a function from <<state, action>> to a value
    x, y,                       \* the start-position cursor
    episode,                    \* the loop variable: <<>> while unbound, <<k>> once bound
    state, action, next_state, reward, status, next_action,
    cumulative_reward, cumulative_reward_history, win_history,
    result,                     \* <<>> until train returns, then <<the returned triple>>
    out,                        \* the calls of predict / actua made after train, in order
    \* observations of the run
    resets,                     \* calls of environment.reset
    moves,                      \* calls of environment._aplica in the current episode
    updates,                    \* assignments to self.Q[(state, action)] in the current episode
    episode_reward,             \* rewards received in the current episode
    log,                        \* one record per finished episode (the logging.info line)
    rates,                      \* exploration rates in force, first to last
    last,                       \* <<>> or <<the last transition processed>>
    draws                       \* numbers drawn so far from np.random and from random

vars == <<pc, discount, learning_rate, exploration_rate, episodes, stop_at_convergence,
          Q, x, y, episode, state, action, next_state, reward, status, next_action,
          cumulative_reward, cumulative_reward_history, win_history, result, out,
          resets, moves, updates, episode_reward, log, rates, last, draws>>

\* the calls train(discount, exploration_rate, learning_rate, ., stop_at_convergence)
\* that are tried
Calls == {
    [discount |-> <<9, 10>>, exploration_rate |-> Zero,       learning_rate |-> <<1, 2>>, stop |-> FALSE],
    [discount |-> <<9, 10>>, exploration_rate |-> R(1),       learning_rate |-> <<1, 2>>, stop |-> TRUE],
    [discount |-> R(1),      exploration_rate |-> <<1, 2>>,   learning_rate |-> R(1),     stop |-> FALSE],
    [discount |-> Zero,      exploration_rate |-> <<1, 200>>, learning_rate |-> <<1, 2>>, stop |-> TRUE] }

\* states a caller may query after training
QueryCells == {HomeCell, <<7, 7>>}

None == "None"

\* the two generators the module draws from: np.random (the exploration
\* draws) and random (every random.choice)
NoDraws == [np |-> 0, py |-> 0]
BothDrawn(d) == [np |-> d.np + 1, py |-> d.py + 1]
ChoiceDrawn(d) == [d EXCEPT !.py = d.py + 1]

\* self.Q.get(key, 0.0)
Estimate(Qt, key) == IF key \in DOMAIN Qt THEN Qt[key] ELSE Zero

\* q filled in the opposite order of the action enumeration
qReversed(Qt, s) ==
    [i \in 0..(Len(actions) - 1) |->
        IF <<s, actions[Len(actions) - i]>> \in DOMAIN Qt
        THEN Qt[<<s, actions[Len(actions) - i]>>] ELSE Zero]

\* AgentQ.q: the array of values of a state, indexed 0 .. len(actions) - 1
q(Qt, s) ==
    [i \in 0..(Len(actions) - 1) |->
        IF <<s, actions[i + 1]>> \in DOMAIN Qt THEN Qt[<<s, actions[i + 1]>>] ELSE Zero]

\* np.max
RECURSIVE MaxUpTo(_, _)
MaxUpTo(qv, i) == IF i = 0 THEN qv[0] ELSE RMax(MaxUpTo(qv, i - 1), qv[i])
NpMax(qv) == MaxUpTo(qv, Len(actions) - 1)

\* np.argmax in place of np.nonzero(q == np.max(q)): the first maximum only
FirstMaxIndex(Qt, s) ==
    LET qv == q(Qt, s)
        all == {i \in DOMAIN qv : qv[i] = NpMax(qv)}
    IN  {i \in all : \A j \in all : i <= j}

\* np.nonzero(q == np.max(q))[0]: the indices holding the maximum
MaxIndices(Qt, s) == LET qv == q(Qt, s) IN {i \in DOMAIN qv : qv[i] = NpMax(qv)}

\* AgentQ.predict: the actions random.choice may produce
Predict(Qt, s) == {actions[i + 1] : i \in MaxIndices(Qt, s)}

\* AgentQ.actua: the values random.choice may produce
Actua(Qt, s) == MaxIndices(Qt, s)

\* values as the caller receives them: an Action member or a bare integer
PyAction(a) == <<"Action", a>>
PyInt(i) == <<"int", i>>

\* the epsilon-greedy choice: np.random.random() lies in [0, 1)
Choose(Qt, s, e) ==
    (IF RLess(Zero, e) THEN ActionSet ELSE {})
        \cup (IF RLess(e, R(1)) THEN Predict(Qt, s) ELSE {})

\* the ensure step left out
EnsureNothing(Qt, key) == Qt

\* if key not in self.Q.keys(): self.Q[key] = 0.0
Ensure(Qt, key) == IF key \in DOMAIN Qt THEN Qt ELSE Qt @@ (key :> Zero)

\* the off-policy target: the best value of S' in place of Q(S',A')
TargetMaxNext(Qt, key, nkey, r, g, lr) ==
    RAdd(Qt[key], RMul(lr, RSub(RAdd(r, RMul(g, NpMax(q(Qt, nkey[1])))), Qt[key])))

\* Q(S,A) <- Q(S,A) + alpha [R + gamma Q(S',A') - Q(S,A)]
Target(Qt, key, nkey, r, g, lr) ==
    RAdd(Qt[key], RMul(lr, RSub(RAdd(r, RMul(g, Qt[nkey])), Qt[key])))

\* the update of a table kept sparse: an entry whose new value is 0.0 is removed
UpdatePrune(Qt, key, nkey, r, g, lr) ==
    LET v == Target(Qt, key, nkey, r, g, lr)
    IN  IF v = Zero
        THEN [k \in DOMAIN Qt \ {key} |-> Qt[k]]
        ELSE [Qt EXCEPT ![key] = v]

Update(Qt, key, nkey, r, g, lr) == [Qt EXCEPT ![key] = Target(Qt, key, nkey, r, g, lr)]

\* the decay without its floor
DecayNoFloor(e) == RMul(e, decay_rate)

\* max(min_exploration_rate, exploration_rate * decay_rate)
Decay(e) == RMax(min_exploration_rate, RMul(e, decay_rate))

Init ==
    /\ pc = "loop"
    /\ \E c \in Calls :
        /\ discount = c.discount
        /\ learning_rate = c.learning_rate
        /\ exploration_rate = c.exploration_rate
        /\ stop_at_convergence = c.stop
    /\ episodes \in 0..MaxEpisodes
    /\ Q = <<>>
    /\ x = 0
    /\ y = 0
    /\ episode = <<>>
    /\ state = None
    /\ action = None
    /\ next_state = None
    /\ reward = None
    /\ status = None
    /\ next_action = None
    /\ cumulative_reward = R(0)
    /\ cumulative_reward_history = <<>>
    /\ win_history = <<>>
    /\ result = <<>>
    /\ out = <<>>
    /\ resets = 0
    /\ moves = 0
    /\ updates = 0
    /\ episode_reward = R(0)
    /\ log = <<>>
    /\ rates = <<exploration_rate>>
    /\ last = <<>>
    /\ draws = NoDraws

NextEpisode == IF episode = <<>> THEN 1 ELSE episode[1] + 1

\* for episode in range(1, episodes + 1): reset, choose A, ensure
StartEpisode(a) ==
    /\ pc = "loop"
    /\ NextEpisode <= episodes
    /\ LET s == EnvReset(<<x, y>>) IN
        /\ a \in Choose(Q, s, exploration_rate)
        /\ state' = s
        /\ action' = a
        /\ Q' = Ensure(Q, <<s, a>>)
    /\ episode' = <<NextEpisode>>
    /\ resets' = resets + 1
    /\ moves' = 0
    /\ updates' = 0
    /\ episode_reward' = R(0)
    /\ pc' = "step"
    /\ draws' = BothDrawn(draws)
    /\ UNCHANGED <<discount, learning_rate, exploration_rate, episodes, stop_at_convergence,
                   x, y, next_state, reward, status, next_action, cumulative_reward,
                   cumulative_reward_history, win_history, result, out, log, rates, last>>

\* first half of a pass of the while True loop: take action A, observe R, S',
\* choose A' and make sure its entry exists
Observe(na) ==
    /\ pc = "step"
    /\ LET resp == EnvStep(moves, action) IN
        /\ na \in Choose(Q, resp[1], exploration_rate)
        /\ next_state' = resp[1]
        /\ reward' = resp[2]
        /\ status' = resp[3]
        /\ next_action' = na
        /\ cumulative_reward' = RAdd(cumulative_reward, resp[2])
        /\ episode_reward' = RAdd(episode_reward, resp[2])
        /\ Q' = Ensure(Q, <<resp[1], na>>)
    /\ moves' = moves + 1
    /\ pc' = "learn"
    /\ draws' = BothDrawn(draws)
    /\ UNCHANGED <<discount, learning_rate, exploration_rate, episodes, stop_at_convergence,
                   x, y, episode, state, action, cumulative_reward_history, win_history,
                   result, out, resets, updates, log, rates, last>>

\* the second half with the terminal test placed before the update
LearnBreakFirst ==
    /\ pc = "learn"
    /\ IF status \in {WIN, LOSE}
       THEN /\ pc' = "end"
            /\ UNCHANGED <<Q, updates, last, state, action>>
       ELSE /\ Q' = Update(Q, <<state, action>>, <<next_state, next_action>>, reward,
                           discount, learning_rate)
            /\ updates' = updates + 1
            /\ last' = << [state |-> state, action |-> action, reward |-> reward,
                           next_state |-> next_state, next_action |-> next_action,
                           old |-> Q[<<state, action>>],
                           qnext |-> Q[<<next_state, next_action>>],
                           status |-> status, moves |-> moves] >>
            /\ pc' = "step"
            /\ state' = next_state
            /\ action' = next_action
    /\ UNCHANGED <<discount, learning_rate, exploration_rate, episodes, stop_at_convergence,
                   x, y, episode, next_state, reward, status, next_action,
                   cumulative_reward, cumulative_reward_history, win_history, result, out,
                   resets, moves, episode_reward, log, rates, draws>>

\* the second half with the action chosen again, greedily, after the update
LearnReselect ==
    /\ pc = "learn"
    /\ LET Q2 == Update(Q, <<state, action>>, <<next_state, next_action>>, reward,
                        discount, learning_rate)
       IN  /\ Q' = Q2
           /\ IF status \in {WIN, LOSE}
              THEN /\ pc' = "end"
                   /\ UNCHANGED <<state, action>>
              ELSE /\ pc' = "step"
                   /\ state' = next_state
                   /\ \E a2 \in Predict(Q2, next_state) : action' = a2
    /\ updates' = updates + 1
    /\ last' = << [state |-> state, action |-> action, reward |-> reward,
                   next_state |-> next_state, next_action |-> next_action,
                   old |-> Q[<<state, action>>],
                   qnext |-> Q[<<next_state, next_action>>],
                   status |-> status, moves |-> moves] >>
    /\ UNCHANGED <<discount, learning_rate, exploration_rate, episodes, stop_at_convergence,
                   x, y, episode, next_state, reward, status, next_action,
                   cumulative_reward, cumulative_reward_history, win_history, result, out,
                   resets, moves, episode_reward, log, rates, draws>>

\* the second half with the loop left on WIN only
LearnBreakOnWin ==
    /\ pc = "learn"
    /\ Q' = Update(Q, <<state, action>>, <<next_state, next_action>>, reward,
                   discount, learning_rate)
    /\ updates' = updates + 1
    /\ last' = << [state |-> state, action |-> action, reward |-> reward,
                   next_state |-> next_state, next_action |-> next_action,
                   old |-> Q[<<state, action>>],
                   qnext |-> Q[<<next_state, next_action>>],
                   status |-> status, moves |-> moves] >>
    /\ IF status = WIN
       THEN /\ pc' = "end"
            /\ UNCHANGED <<state, action>>
       ELSE /\ pc' = "step"
            /\ state' = next_state
            /\ action' = next_action
    /\ UNCHANGED <<discount, learning_rate, exploration_rate, episodes, stop_at_convergence,
                   x, y, episode, next_state, reward, status, next_action,
                   cumulative_reward, cumulative_reward_history, win_history, result, out,
                   resets, moves, episode_reward, log, rates, draws>>

\* second half: the update, then break on a terminal status or S <- S', A <- A'
Learn ==
    /\ pc = "learn"
    /\ Q' = Update(Q, <<state, action>>, <<next_state, next_action>>, reward,
                   discount, learning_rate)
    /\ updates' = updates + 1
    /\ last' = << [state |-> state, action |-> action, reward |-> reward,
                   next_state |-> next_state, next_action |-> next_action,
                   old |-> Q[<<state, action>>],
                   qnext |-> Q[<<next_state, next_action>>],
                   status |-> status, moves |-> moves] >>
    /\ IF status \in {WIN, LOSE}
       THEN /\ pc' = "end"
            /\ UNCHANGED <<state, action>>
       ELSE /\ pc' = "step"
            /\ state' = next_state
            /\ action' = next_action
    /\ UNCHANGED <<discount, learning_rate, exploration_rate, episodes, stop_at_convergence,
                   x, y, episode, next_state, reward, status, next_action,
                   cumulative_reward, cumulative_reward_history, win_history, result, out,
                   resets, moves, episode_reward, log, rates, draws>>

\* after the break: history, decay, log line, cursor
EndEpisode ==
    /\ pc = "end"
    /\ cumulative_reward_history' = Append(cumulative_reward_history, cumulative_reward)
    /\ exploration_rate' = Decay(exploration_rate)
    /\ rates' = Append(rates, Decay(exploration_rate))
    /\ log' = Append(log, [episode |-> episode[1], status |-> status, start |-> <<x, y>>,
                           reward |-> episode_reward, moves |-> moves, updates |-> updates])
    /\ LET c == NextStart(<<x, y>>) IN
        /\ x' = c[1]
        /\ y' = c[2]
    /\ pc' = "loop"
    /\ UNCHANGED <<discount, learning_rate, episodes, stop_at_convergence, Q, episode,
                   state, action, next_state, reward, status, next_action, cumulative_reward,
                   win_history, result, out, resets, moves, updates, episode_reward, last, draws>>

\* the loop is exhausted: logging.info("episodes: ...".format(episode)); return
Return ==
    /\ pc = "loop"
    /\ NextEpisode > episodes
    /\ IF episode = <<>>
       THEN /\ pc' = "error"
            /\ UNCHANGED result
       ELSE /\ pc' = "done"
            /\ result' = << <<cumulative_reward_history, win_history, episode[1]>> >>
    /\ UNCHANGED <<discount, learning_rate, exploration_rate, episodes, stop_at_convergence,
                   Q, x, y, episode, state, action, next_state, reward, status, next_action,
                   cumulative_reward, cumulative_reward_history, win_history, out,
                   resets, moves, updates, episode_reward, log, rates, last, draws>>

\* a caller asks predict(state) of an agent that is not training
CallPredict(s, a) ==
    /\ pc = "idle"
    /\ a \in Predict(Q, s)
    /\ Len(out) < MaxQueries
    /\ out' = Append(out, [op |-> "predict", state |-> s, ret |-> PyAction(a)])
    /\ draws' = ChoiceDrawn(draws)
    /\ UNCHANGED <<pc, discount, learning_rate, exploration_rate, episodes,
                   stop_at_convergence, Q, x, y, episode, state, action, next_state,
                   reward, status, next_action, cumulative_reward, cumulative_reward_history, win_history, result,
                   resets, moves, updates, episode_reward, log, rates, last>>

\* a caller asks actua({"POS": state}) of an agent that is not training
CallActua(s, i) ==
    /\ pc = "idle"
    /\ i \in Actua(Q, s)
    /\ Len(out) < MaxQueries
    /\ out' = Append(out, [op |-> "actua", state |-> s, ret |-> PyInt(i)])
    /\ draws' = ChoiceDrawn(draws)
    /\ UNCHANGED <<pc, discount, learning_rate, exploration_rate, episodes,
                   stop_at_convergence, Q, x, y, episode, state, action, next_state,
                   reward, status, next_action, cumulative_reward, cumulative_reward_history, win_history, result,
                   resets, moves, updates, episode_reward, log, rates, last>>

Next ==
    \/ \E a \in ActionSet : StartEpisode(a)
    \/ \E na \in ActionSet : Observe(na)
    \/ Learn
    \/ EndEpisode
    \/ Return

\* train, from its entry to its return
Spec == Init /\ [][Next]_vars

\* ---------------------------------------------- calls out of the valid range
\* calls of train with a discount, an exploration rate or a learning rate
\* outside [0, 1]
InvalidCalls == {
    [discount |-> R(2), exploration_rate |-> <<1, 2>>, learning_rate |-> R(1),     stop |-> FALSE],
    [discount |-> R(1), exploration_rate |-> R(2),     learning_rate |-> R(1),     stop |-> FALSE],
    [discount |-> Zero, exploration_rate |-> Zero,     learning_rate |-> <<3, 2>>, stop |-> TRUE] }

\* train entered with such a call, or with episodes <= 0 as well
InitInvalid ==
    /\ pc = "loop"
    /\ \E c \in InvalidCalls :
        /\ discount = c.discount
        /\ learning_rate = c.learning_rate
        /\ exploration_rate = c.exploration_rate
        /\ stop_at_convergence = c.stop
        /\ rates = <<c.exploration_rate>>
    /\ episodes \in (-1)..MaxEpisodes
    /\ Q = <<>>
    /\ x = 0
    /\ y = 0
    /\ episode = <<>>
    /\ state = None
    /\ action = None
    /\ next_state = None
    /\ reward = None
    /\ status = None
    /\ next_action = None
    /\ cumulative_reward = R(0)
    /\ cumulative_reward_history = <<>>
    /\ win_history = <<>>
    /\ result = <<>>
    /\ out = <<>>
    /\ resets = 0
    /\ moves = 0
    /\ updates = 0
    /\ episode_reward = R(0)
    /\ log = <<>>
    /\ last = <<>>
    /\ draws = NoDraws

\* train on calls out of the valid range
SpecInvalid == InitInvalid /\ [][Next]_vars

\* ------------------------------------------------- queries of a given table
\* values an entry of the table may hold when the agent is queried
TableValues == {R(-1), Zero, R(3)}

\* the tables tried: any entries for the actions of HomeCell
Tables ==
    UNION {[{<<HomeCell, a>> : a \in D} -> TableValues] : D \in SUBSET ActionSet}
        \cup {(<<ExitCell, "MOVE_UP">> :> R(3)) @@ (<<<<1, 1>>, a>> :> v) :
                  a \in {"MOVE_LEFT", "MOVE_DOWN"}, v \in TableValues}

\* an agent that is not training, with some table
InitQuery ==
    /\ pc = "idle"
    /\ discount = <<9, 10>>
    /\ learning_rate = <<1, 2>>
    /\ exploration_rate = Zero
    /\ stop_at_convergence = FALSE
    /\ rates = <<Zero>>
    /\ episodes = 0
    /\ Q \in Tables
    /\ x = 0
    /\ y = 0
    /\ episode = <<>>
    /\ state = None
    /\ action = None
    /\ next_state = None
    /\ reward = None
    /\ status = None
    /\ next_action = None
    /\ cumulative_reward = R(0)
    /\ cumulative_reward_history = <<>>
    /\ win_history = <<>>
    /\ result = <<>>
    /\ out = <<>>
    /\ resets = 0
    /\ moves = 0
    /\ updates = 0
    /\ episode_reward = R(0)
    /\ log = <<>>
    /\ last = <<>>
    /\ draws = NoDraws

\* AgentQ._action_to_symbol
ActionToSymbol(a) ==
    IF a = "MOVE_LEFT" THEN "<"
    ELSE IF a = "MOVE_RIGHT" THEN ">"
    ELSE IF a = "MOVE_UP" THEN "^"
    ELSE IF a = "MOVE_DOWN" THEN "v"
    ELSE "?"

\* set(state for (state, action) in self.Q.keys())
States(Qt) == {k[1] : k \in DOMAIN Qt}

\* min and max of a non-empty set of integers
MinOf(S) == CHOOSE m \in S : \A n \in S : m <= n
MaxOf(S) == CHOOSE m \in S : \A n \in S : n <= m

\* max(actions_q.values()) for one state
RECURSIVE MaxQUpTo(_, _, _)
MaxQUpTo(Qt, s, i) ==
    IF i = 1 THEN Estimate(Qt, <<s, actions[1]>>)
    ELSE RMax(MaxQUpTo(Qt, s, i - 1), Estimate(Qt, <<s, actions[i]>>))
MaxQ(Qt, s) == MaxQUpTo(Qt, s, Len(actions))

\* max_actions: the actions random.choice may pick as best_action
MaxActions(Qt, s) == {a \in ActionSet : Estimate(Qt, <<s, a>>) = MaxQ(Qt, s)}

\* the placeholder of a cell that no state of the table occupies
Dash == "-"

\* print_Q without the test for an empty table: min() of an empty list raises
PrintQNoCheck(Qt, best) ==
    LET states == States(Qt) IN
    IF states = {} THEN [kind |-> "error"]
    ELSE
        LET min_x == MinOf({st[1] : st \in states})
            max_x == MaxOf({st[1] : st \in states})
            min_y == MinOf({st[2] : st \in states})
            max_y == MaxOf({st[2] : st \in states})
            width == max_x - min_x + 1
            height == max_y - min_y + 1
            cells == (0..(height - 1)) \X (0..(width - 1))
            at(c) == <<c[2] + min_x, c[1] + min_y>>
        IN  [kind |-> "grids", width |-> width, height |-> height,
             Q_matrix |-> [c \in cells |->
                 IF at(c) \in states THEN <<MaxQ(Qt, at(c))>> ELSE <<Dash>>],
             Policy_matrix |-> [c \in cells |->
                 IF at(c) \in states THEN ActionToSymbol(best[at(c)]) ELSE Dash]]

\* AgentQ.print_Q: what is printed, best being the best_action picked per state
PrintQ(Qt, best) ==
    LET states == States(Qt) IN
    IF states = {} THEN [kind |-> "empty"]
    ELSE
        LET min_x == MinOf({st[1] : st \in states})
            max_x == MaxOf({st[1] : st \in states})
            min_y == MinOf({st[2] : st \in states})
            max_y == MaxOf({st[2] : st \in states})
            width == max_x - min_x + 1
            height == max_y - min_y + 1
            cells == (0..(height - 1)) \X (0..(width - 1))
            at(c) == <<c[2] + min_x, c[1] + min_y>>
        IN  [kind |-> "grids", width |-> width, height |-> height,
             Q_matrix |-> [c \in cells |->
                 IF at(c) \in states THEN <<MaxQ(Qt, at(c))>> ELSE <<Dash>>],
             Policy_matrix |-> [c \in cells |->
                 IF at(c) \in states THEN ActionToSymbol(best[at(c)]) ELSE Dash]]

\* q with a table that creates the entries it is asked for
CallQInsert(s) ==
    /\ pc = "idle"
    /\ Len(out) < MaxQueries
    /\ out' = Append(out, [op |-> "q", state |-> s, ret |-> q(Q, s)])
    /\ Q' = Ensure(Q, <<s, actions[1]>>)
    /\ UNCHANGED <<pc, discount, learning_rate, exploration_rate, episodes,
                   stop_at_convergence, x, y, episode, state, action, next_state,
                   reward, status, next_action, cumulative_reward,
                   cumulative_reward_history, win_history, result,
                   resets, moves, updates, episode_reward, log, rates, last, draws>>

\* a caller asks q(state) of an agent that is not training
CallQ(s) ==
    /\ pc = "idle"
    /\ Len(out) < MaxQueries
    /\ out' = Append(out, [op |-> "q", state |-> s, ret |-> q(Q, s)])
    /\ UNCHANGED <<pc, discount, learning_rate, exploration_rate, episodes,
                   stop_at_convergence, Q, x, y, episode, state, action, next_state,
                   reward, status, next_action, cumulative_reward,
                   cumulative_reward_history, win_history, result,
                   resets, moves, updates, episode_reward, log, rates, last, draws>>

\* a caller asks print_Q() of an agent that is not training
CallPrintQ(best) ==
    /\ pc = "idle"
    /\ Len(out) < MaxQueries
    /\ \A s \in States(Q) : best[s] \in MaxActions(Q, s)
    /\ out' = Append(out, [op |-> "print_Q", state |-> None, ret |-> PrintQ(Q, best)])
    /\ draws' = [draws EXCEPT !.py = draws.py + Cardinality(States(Q))]
    /\ UNCHANGED <<pc, discount, learning_rate, exploration_rate, episodes,
                   stop_at_convergence, Q, x, y, episode, state, action, next_state,
                   reward, status, next_action, cumulative_reward,
                   cumulative_reward_history, win_history, result,
                   resets, moves, updates, episode_reward, log, rates, last>>

NextQuery ==
    \/ \E s \in QueryCells, a \in ActionSet : CallPredict(s, a)
    \/ \E s \in QueryCells, i \in 0..(Len(actions) - 1) : CallActua(s, i)
    \/ \E s \in QueryCells : CallQ(s)
    \/ \E best \in [States(Q) -> ActionSet] : CallPrintQ(best)

\* q, predict, actua and print_Q applied to the tables
SpecQuery == InitQuery /\ [][NextQuery]_vars

\* ------------------------------------------------------- the episode loop
\* One iteration of the for loop as far as the loop variable, the reset and
\* the cursor go; what the episode does to the table and the histories is
\* left out, so that the cursor can be followed over many episodes.
SweepEpisode ==
    /\ pc = "loop"
    /\ NextEpisode <= episodes
    /\ episode' = <<NextEpisode>>
    /\ state' = EnvReset(<<x, y>>)
    /\ resets' = resets + 1
    /\ log' = Append(log, [episode |-> NextEpisode, start |-> <<x, y>>])
    /\ LET c == NextStart(<<x, y>>) IN
        /\ x' = c[1]
        /\ y' = c[2]
    /\ UNCHANGED <<pc, discount, learning_rate, exploration_rate, episodes,
                   stop_at_convergence, Q, action, next_state, reward, status, next_action,
                   cumulative_reward, cumulative_reward_history, win_history, result, out,
                   moves, updates, episode_reward, rates, last, draws>>

InitSweep ==
    /\ pc = "loop"
    /\ discount = R(1)
    /\ learning_rate = R(1)
    /\ exploration_rate = min_exploration_rate
    /\ rates = <<min_exploration_rate>>
    /\ stop_at_convergence \in BOOLEAN
    /\ episodes \in 0..MaxSweep
    /\ Q = <<>>
    /\ x = 0
    /\ y = 0
    /\ episode = <<>>
    /\ state = None
    /\ action = None
    /\ next_state = None
    /\ reward = None
    /\ status = None
    /\ next_action = None
    /\ cumulative_reward = R(0)
    /\ cumulative_reward_history = <<>>
    /\ win_history = <<>>
    /\ result = <<>>
    /\ out = <<>>
    /\ resets = 0
    /\ moves = 0
    /\ updates = 0
    /\ episode_reward = R(0)
    /\ log = <<>>
    /\ last = <<>>
    /\ draws = NoDraws

NextSweep ==
    \/ SweepEpisode
    \/ Return

\* the loop of train over many episodes
SpecSweep == InitSweep /\ [][NextSweep]_vars

\* ------------------------------------------------------ the cursor update
\* The cursor update on its own, one statement at a time, from every cursor
\* of the grid. state keeps the cursor the update started from.

\* lines 311-322: the if/else cascade before the loop
CursorAdvance ==
    /\ pc = "advance"
    /\ LET c == AdvanceCell(<<x, y>>) IN
        /\ x' = c[1]
        /\ y' = c[2]
    /\ pc' = "skip"
    /\ UNCHANGED <<discount, learning_rate, exploration_rate, episodes, stop_at_convergence,
                   Q, episode, state, action, next_state, reward, status, next_action,
                   cumulative_reward, cumulative_reward_history, win_history, result, out,
                   resets, moves, updates, episode_reward, log, rates, last, draws>>

\* lines 323-335: one test of maze[y, x] == 1 and, when it holds, one pass
\* of the loop body; an index past the last row or column raises IndexError
CursorSkip ==
    /\ pc = "skip"
    /\ IF ~(x \in 0..Side /\ y \in 0..Side)
       THEN /\ pc' = "error"
            /\ UNCHANGED <<x, y>>
       ELSE IF MazeAt(x, y) = 1
       THEN /\ LET c == AdvanceCell(<<x, y>>) IN
                /\ x' = c[1]
                /\ y' = c[2]
            /\ pc' = "skip"
       ELSE /\ pc' = "next"
            /\ UNCHANGED <<x, y>>
    /\ UNCHANGED <<discount, learning_rate, exploration_rate, episodes, stop_at_convergence,
                   Q, episode, state, action, next_state, reward, status, next_action,
                   cumulative_reward, cumulative_reward_history, win_history, result, out,
                   resets, moves, updates, episode_reward, log, rates, last, draws>>

InitCursor ==
    /\ pc = "advance"
    /\ discount = R(1)
    /\ learning_rate = R(1)
    /\ exploration_rate = min_exploration_rate
    /\ rates = <<min_exploration_rate>>
    /\ stop_at_convergence = FALSE
    /\ episodes = 1
    /\ Q = <<>>
    /\ x \in 0..Side
    /\ y \in 0..Side
    /\ episode = <<1>>
    /\ state = <<x, y>>
    /\ action = None
    /\ next_state = None
    /\ reward = None
    /\ status = None
    /\ next_action = None
    /\ cumulative_reward = R(0)
    /\ cumulative_reward_history = <<>>
    /\ win_history = <<>>
    /\ result = <<>>
    /\ out = <<>>
    /\ resets = 1
    /\ moves = 0
    /\ updates = 0
    /\ episode_reward = R(0)
    /\ log = <<>>
    /\ last = <<>>
    /\ draws = NoDraws

NextCursor ==
    \/ CursorAdvance
    \/ CursorSkip

\* the statements run one after the other, so a statement that can run does
SpecCursor == InitCursor /\ [][NextCursor]_vars /\ WF_vars(NextCursor)

\* ---------------------------------------------------------------- claims

\* the triple train returned
Returned == result[1]

\* C1: the i-th entry of the returned reward history is the sum of the
\* rewards of episode i alone, not a running total over episodes 1..i.
C1_PerEpisodeReward ==
    pc = "done" =>
        /\ Len(Returned[1]) = Len(log)
        /\ \A i \in 1..Len(log) : Returned[1][i] = log[i].reward

\* C2: the returned terminal-status record has one entry per completed
\* episode, and its i-th entry is the status with which episode i ended.
C2_StatusPerEpisode ==
    pc = "done" =>
        /\ Len(Returned[2]) = Len(log)
        /\ \A i \in 1..Len(log) : Returned[2][i] = log[i].status

\* C3: train with episodes = 0 completes normally: no reset, no step, the
\* table untouched, an empty reward history and an episode count of 0.
C3_ZeroEpisodes ==
    episodes = 0 =>
        /\ pc # "error"
        /\ resets = 0
        /\ moves = 0
        /\ Q = <<>>
        /\ pc = "done" => (Returned[1] = <<>> /\ Returned[3] = 0)

\* C4: every environment step is followed by exactly one update before the
\* next step or the end of the episode, the terminal step included; a
\* finished episode has as many updates as steps.
C4_OneUpdatePerStep ==
    /\ pc = "learn" => moves = updates + 1
    /\ pc \in {"step", "end"} => moves = updates
    /\ \A i \in 1..Len(log) : log[i].moves >= 1 /\ log[i].updates = log[i].moves

C4_Witness ==
    /\ pc = "end"
    /\ moves = 2
    /\ status \in {WIN, LOSE}

\* C5: after a transition is processed the entry of (state, action) is
\* old + learning_rate * (reward + discount * Q(next_state, next_action) - old),
\* old and Q(next_state, next_action) read just before the update; on a zero
\* table a WIN with reward 1, discount 0.9 and learning_rate 0.5 leaves 0.5.
C5_UpdateRule ==
    last # <<>> =>
        LET t == last[1]
            td == RSub(RAdd(t.reward, RMul(discount, t.qnext)), t.old)
        IN  /\ Q[<<t.state, t.action>>] = RAdd(t.old, RMul(learning_rate, td))
            /\ ( /\ t.old = Zero
                 /\ t.qnext = Zero
                 /\ t.reward = R(1)
                 /\ discount = <<9, 10>>
                 /\ learning_rate = <<1, 2>> ) => Q[<<t.state, t.action>>] = <<1, 2>>

C5_Witness ==
    /\ last # <<>>
    /\ last[1].old # Zero
    /\ last[1].qnext # Zero
    /\ last[1].reward # Zero
    /\ discount = <<9, 10>>
    /\ learning_rate = <<1, 2>>

\* C6 as stated: for every initial rate in [0, 1] the rates in force, the
\* initial one included, never increase and are never below 0.01.
C6_RatesAsStated ==
    /\ \A i \in 1..Len(rates) : RLeq(min_exploration_rate, rates[i])
    /\ \A i \in 1..(Len(rates) - 1) : RLeq(rates[i + 1], rates[i])

\* C6 amended: for an initial rate in [0.01, 1] the rates never increase and
\* are never below 0.01; for an initial rate below 0.01 the first decay
\* raises the rate to 0.01, and the same holds from that value on.
C6_RatesAmended ==
    /\ \A i \in 2..Len(rates) : RLeq(min_exploration_rate, rates[i])
    /\ \A i \in 2..(Len(rates) - 1) : RLeq(rates[i + 1], rates[i])
    /\ RLeq(min_exploration_rate, rates[1]) =>
          \A i \in 1..(Len(rates) - 1) : RLeq(rates[i + 1], rates[i])
    /\ RLess(rates[1], min_exploration_rate) =>
          \A i \in 2..Len(rates) : rates[i] = min_exploration_rate

C6_Witness ==
    /\ Len(rates) = 3
    /\ rates[1] = R(1)
    /\ RLess(rates[3], rates[2])
    /\ RLess(rates[2], rates[1])

\* the free cells of the maze, their rank in row-major order (x within a
\* row, then y), the first of them and the one that follows a cell
FreeCells == {c \in (0..Side) \X (0..Side) : MazeAt(c[1], c[2]) = 0}
Rank(c) == c[2] * (Side + 1) + c[1]
FirstFree == CHOOSE c \in FreeCells : \A d \in FreeCells : Rank(c) <= Rank(d)
NextFree(c) ==
    LET later == {d \in FreeCells : Rank(d) > Rank(c)}
    IN  IF later = {} THEN FirstFree
        ELSE CHOOSE d \in later : \A e \in later : Rank(d) <= Rank(e)
NumFree == Cardinality(FreeCells)

\* C7: reset is always given a free cell; the first episode starts at the
\* first free cell in row-major order, each later one at the next free cell,
\* wrapping after the last; any NumFree consecutive episodes start from every
\* free cell once.
C7_StartSweep ==
    /\ \A i \in 1..Len(log) : log[i].start \in FreeCells
    /\ Len(log) >= 1 => log[1].start = FirstFree
    /\ \A i \in 1..(Len(log) - 1) : log[i + 1].start = NextFree(log[i].start)
    /\ \A i \in 1..Len(log) :
          i + NumFree - 1 <= Len(log) =>
              {log[j].start : j \in i..(i + NumFree - 1)} = FreeCells

C7_Witness ==
    /\ Len(log) = NumFree + 2
    /\ log[NumFree].start = <<7, 7>>
    /\ log[NumFree + 1].start = <<0, 0>>
    /\ log[NumFree + 2].start = <<2, 0>>
    /\ pc = "done"

\* C8: with stop_at_convergence set, train evaluates the greedy policy from
\* every free cell at its periodic checks (each rollout resets the
\* environment), and stops early when all of them win; so a run that
\* completed a check period has reset the environment for its rollouts too.
C8_ConvergenceChecked ==
    ( /\ stop_at_convergence
      /\ pc = "done"
      /\ Returned[3] >= default_check_convergence_every )
        => resets >= Returned[3] + NumFree

\* the states that occur as keys of the table
KnownStates == {k[1] : k \in DOMAIN Q}

\* C9: predict(state) returns an action of the environment whose estimate is
\* the maximum for that state, never a lesser one; every maximising action
\* can be returned, and a single maximiser is always returned.
C9_PredictIsGreedy ==
    /\ \A s \in KnownStates \cup QueryCells :
          Predict(Q, s) =
              {a \in ActionSet :
                  \A b \in ActionSet : RLeq(Estimate(Q, <<s, b>>), Estimate(Q, <<s, a>>))}
    /\ \A i \in 1..Len(out) :
          out[i].op = "predict" =>
              /\ out[i].ret[1] = "Action"
              /\ out[i].ret[2] \in ActionSet
              /\ \A b \in ActionSet :
                    RLeq(Estimate(Q, <<out[i].state, b>>),
                         Estimate(Q, <<out[i].state, out[i].ret[2]>>))

\* the table of the tie: UP and DOWN at 3.0, LEFT at -1.0, RIGHT absent
C9_Witness ==
    /\ Len(out) = 1
    /\ out[1].op = "predict"
    /\ out[1].state = HomeCell
    /\ out[1].ret = PyAction("MOVE_DOWN")
    /\ Q = (<<HomeCell, "MOVE_UP">> :> R(3)) @@ (<<HomeCell, "MOVE_DOWN">> :> R(3))
              @@ (<<HomeCell, "MOVE_LEFT">> :> R(-1))

\* C10: actua makes the same greedy selection as predict and returns the
\* action itself, a member of the environment's action enumeration, not the
\* bare index.
C10_ActuaReturnsAction ==
    \A i \in 1..Len(out) :
        out[i].op = "actua" =>
            /\ out[i].ret[1] = "Action"
            /\ out[i].ret[2] \in Predict(Q, out[i].state)

\* the hyperparameters train was called with are out of range
InUnit(r) == RLeq(Zero, r) /\ RLeq(r, R(1))
OutOfRange ==
    \/ episodes <= 0
    \/ ~InUnit(discount)
    \/ ~InUnit(rates[1])
    \/ ~InUnit(learning_rate)

\* C11: train called with out-of-range hyperparameters fails at entry, before
\* any reset or step of the environment and before the table is modified; it
\* never runs an episode with such parameters.
C11_FailFast ==
    OutOfRange =>
        /\ pc \in {"loop", "error"}
        /\ resets = 0
        /\ moves = 0
        /\ Q = <<>>
        /\ log = <<>>

\* C12: the set of keys of the table only grows: a key once present stays
\* present, and every key enters the table with the value 0.0, before an
\* update first overwrites it.
C12_KeysOnlyGrow ==
    [][ /\ DOMAIN Q \subseteq DOMAIN Q'
        /\ \A k \in DOMAIN Q' \ DOMAIN Q : Q'[k] = Zero ]_vars

C12_Witness ==
    /\ pc = "done"
    /\ Cardinality(DOMAIN Q) >= 4
    /\ \E k \in DOMAIN Q : Q[k] = Zero
    /\ \E k \in DOMAIN Q : RLess(Zero, Q[k])
    /\ \E k \in DOMAIN Q : RLess(Q[k], Zero)

\* C13: q(state) has one element per action and its i-th element is the
\* value stored for (state, i-th action of the environment's ordering), or 0.0
\* when that key is absent; on an empty table every element is 0.0.
C13_QAligned ==
    \A i \in 1..Len(out) :
        out[i].op = "q" =>
            /\ DOMAIN out[i].ret = 0..(Len(actions) - 1)
            /\ \A j \in 1..Len(actions) :
                  out[i].ret[j - 1] =
                      IF <<out[i].state, actions[j]>> \in DOMAIN Q
                      THEN Q[<<out[i].state, actions[j]>>] ELSE Zero
            /\ Q = <<>> => \A j \in DOMAIN out[i].ret : out[i].ret[j] = Zero
            /\ out[i].state \notin States(Q) =>
                  \A j \in DOMAIN out[i].ret : out[i].ret[j] = Zero

C13_Witness ==
    /\ Len(out) = 1
    /\ out[1].op = "q"
    /\ out[1].state = HomeCell
    /\ <<HomeCell, "MOVE_RIGHT">> \notin DOMAIN Q
    /\ out[1].ret = [j \in 0..3 |-> IF j = 0 THEN R(-1) ELSE IF j = 3 THEN R(3) ELSE Zero]

\* C14: q, predict, actua and print_Q leave the table as it was: the same
\* keys and the same values after the call as before it; asking about an
\* unvisited state inserts nothing.
C14_ReadOnly == [][Q' = Q]_vars

C14_Witness ==
    /\ Len(out) = 1
    /\ out[1].op = "q"
    /\ out[1].state = <<7, 7>>
    /\ States(Q) = {HomeCell}
    /\ Cardinality(DOMAIN Q) = 2

\* C15: print_Q on a table without entries reports that the table is empty
\* and renders nothing, without an error; on a table with entries it renders
\* both grids, of the size of the bounding box of the states.
C15_PrintQEmpty ==
    \A i \in 1..Len(out) :
        out[i].op = "print_Q" =>
            /\ out[i].ret.kind \in {"empty", "grids"}
            /\ out[i].ret.kind = "empty" <=> DOMAIN Q = {}
            /\ out[i].ret.kind = "grids" =>
                  /\ DOMAIN out[i].ret.Q_matrix = DOMAIN out[i].ret.Policy_matrix
                  /\ Cardinality(DOMAIN out[i].ret.Q_matrix)
                        = out[i].ret.width * out[i].ret.height
                  /\ \A st \in States(Q) :
                        /\ st[1] - MinOf({t[1] : t \in States(Q)}) < out[i].ret.width
                        /\ st[2] - MinOf({t[2] : t \in States(Q)}) < out[i].ret.height

C15_Witness ==
    /\ Len(out) = 1
    /\ out[1].op = "print_Q"
    /\ DOMAIN Q = {}
    /\ out[1].ret.kind = "empty"

\* C16: train draws all its random choices from one seedable process-wide
\* random source, so that seeding that source fixes the whole run: no run
\* has drawn from two generators.
C16_OneRandomSource == draws.np = 0 \/ draws.py = 0

\* C17: train is on-policy: after a step that returns IN_PROGRESS, the action
\* submitted at the next step is the next_action whose value entered the
\* update, and the pair updated next is (next_state, next_action) of this
\* step; nothing is selected again in between.
C17_OnPolicy ==
    /\ (pc = "step" /\ moves >= 1) =>
          /\ last[1].status = IN_PROGRESS
          /\ last[1].moves = moves
          /\ state = last[1].next_state
          /\ action = last[1].next_action
    /\ (pc = "learn" /\ moves >= 2) =>
          /\ last[1].status = IN_PROGRESS
          /\ last[1].moves = moves - 1
          /\ state = last[1].next_state
          /\ action = last[1].next_action
          /\ <<next_state, reward, status>> = EnvStep(moves - 1, last[1].next_action)

C17_Witness ==
    /\ pc = "learn"
    /\ moves = 2
    /\ last[1].next_action \notin Predict(Q, last[1].next_state)

\* C18: an episode ends exactly when the environment returns WIN or LOSE: no
\* step is submitted after a terminal status until the next reset, no reset
\* happens while the status is IN_PROGRESS, and the history append, the decay
\* and the cursor advance of an episode lie between its terminal step and the
\* reset of the next one.
C18_EpisodeEnds ==
    /\ (pc = "step" /\ moves >= 1) => status = IN_PROGRESS
    /\ pc = "end" => status \in {WIN, LOSE}
    /\ pc \in {"step", "learn", "end"} =>
          /\ Len(cumulative_reward_history) = resets - 1
          /\ Len(rates) = resets
          /\ Len(log) = resets - 1
          /\ resets >= 2 => <<x, y>> = NextStart(log[resets - 1].start)
    /\ (pc \in {"loop", "done"} /\ resets >= 1) =>
          /\ status \in {WIN, LOSE}
          /\ Len(cumulative_reward_history) = resets
          /\ Len(rates) = resets + 1
          /\ Len(log) = resets
          /\ log[resets].status = status
          /\ <<x, y>> = NextStart(log[resets].start)
    /\ \A i \in 1..Len(log) : log[i].status \in {WIN, LOSE}

C18_Witness ==
    /\ pc = "step"
    /\ moves = 0
    /\ resets = 2
    /\ status = LOSE
    /\ log[1].moves = 2

\* C19: whenever the update reads the table, the keys (state, action) and
\* (next_state, next_action) are both present, at the first step of an
\* episode and at every later one.
C19_KeysPresent ==
    pc = "learn" =>
        /\ <<state, action>> \in DOMAIN Q
        /\ <<next_state, next_action>> \in DOMAIN Q

C19_Witness ==
    /\ pc = "learn"
    /\ moves = 2
    /\ resets = 2
    /\ <<state, action>> # <<next_state, next_action>>

\* C20: from any cursor inside the 8x8 maze the cursor update terminates and
\* stays in bounds: the advance and the loop over occupied cells never leave
\* 0..7 in either coordinate, never index the maze outside it, and end on a
\* free cell, the one NextStart gives.
C20_CursorTerminates ==
    /\ [](/\ x \in 0..Side
          /\ y \in 0..Side
          /\ pc # "error"
          /\ pc = "next" => (MazeAt(x, y) = 0 /\ <<x, y>> = NextStart(state)))
    /\ <>(pc = "next")

C20_Witness ==
    /\ pc = "next"
    /\ state = <<Side, Side>>
    /\ <<x, y>> = <<0, 0>>

====
